---- MODULE Spec2Model ----
(***************************************************************************)
(* Counterfactual search of alibi/explainers/counterfactual/               *)
(* counterfactual.py: the target-function selector (_define_func), the     *)
(* numerical gradients, the Wachter loss assembler (get_wachter_grads) and *)
(* the search controller (CounterFactual.__init__, explain,                *)
(* _minimize_wachter_loss).                                                *)
(*                                                                         *)
(* Numbers.  Features live on an integer grid; the finite-difference step  *)
(* is one grid unit.  Probabilities are integers in tenths (ProbScale),    *)
(* lambda is an integer in units of 1/LamScale, loss and gradient values   *)
(* are kept exactly in units of 1/(ProbScale^2 * LamScale).                *)
(***************************************************************************)
EXTENDS Integers, Sequences, FiniteSets, TLC

\* ------------------------------------------------------------------ bounds
MaxIter == 2
MaxLamSteps == 2
MaxCalls == 2

\* ------------------------------------------------------------ units, shape
NFeatures == 2
NClasses == 3
ProbScale == 10
LamScale == 2

Features == 1..NFeatures
Classes == 0..(NClasses - 1)
LossScale == ProbScale * ProbScale * LamScale

\* -------------------------------------------------------------- arithmetic
Abs(n) ==
    IF n < 0 THEN -n ELSE n

Sgn(n) ==
    IF n > 0 THEN 1 ELSE IF n < 0 THEN -1 ELSE 0

Min2(a, b) ==
    IF a < b THEN a ELSE b

Max2(a, b) ==
    IF a > b THEN a ELSE b

\* division by two, rounding towards zero
Half(n) ==
    IF n >= 0 THEN n \div 2 ELSE -((-n) \div 2)

\* -------------------------------------------------------------- classifier
\* The classifier handed to the constructor: class probabilities (tenths,
\* class k at position k + 1) as a function of the score x[1] + x[2].
ProbaTable ==
    << <<6, 3, 1>>, <<4, 5, 1>>, <<1, 7, 2>>, <<1, 5, 4>>, <<1, 2, 7>> >>

Score(X) ==
    Max2(-2, Min2(2, X[1] + X[2]))

predict_fn(X) ==
    ProbaTable[Score(X) + 3]

\* probas.argmax(): the first index of the maximum
argmax(probas) ==
    CHOOSE k \in Classes :
        /\ \A j \in Classes : probas[j + 1] <= probas[k + 1]
        /\ \A j \in Classes : j < k => probas[j + 1] < probas[k + 1]

\* probas.max()
amax(probas) ==
    probas[argmax(probas) + 1]

\* np.argsort(-probas)[0, :]: class indices in decreasing order of
\* probability, equal probabilities in increasing index order
argsort(probas) ==
    [r \in 1..NClasses |->
        CHOOSE k \in Classes :
            Cardinality({j \in Classes :
                \/ probas[j + 1] > probas[k + 1]
                \/ probas[j + 1] = probas[k + 1] /\ j < k}) = r - 1]

\* ---------------------------------------------------------------- distance
\* _metric_dict: the registered metrics
metric_dict ==
    {"l1"}

\* cityblock: sum of absolute elementwise differences
RECURSIVE SumAbs(_, _, _)
SumAbs(X, Y, n) ==
    IF n = 0 THEN 0 ELSE Abs(X[n] - Y[n]) + SumAbs(X, Y, n - 1)

\* a distance that sums the differences without taking absolute values
RECURSIVE SumDiff(_, _, _)
SumDiff(X, Y, n) ==
    IF n = 0 THEN 0 ELSE (X[n] - Y[n]) + SumDiff(X, Y, n - 1)

cityblock_signed(X, Y) ==
    SumDiff(X, Y, NFeatures)

cityblock(X, Y) ==
    SumAbs(X, Y, NFeatures)

\* ------------------------------------------------ target-function selector
\* target_class values: the strings and the integer class indices
TStr(s) ==
    [kind |-> "str", s |-> s, k |-> 0]

TInt(k) ==
    [kind |-> "int", s |-> "", k |-> k]

\* a func of the 'other' branch that forgets to exclude the predicted class
other_class_top(pred_class, X) ==
    argsort(predict_fn(X))[1]

\* a func of the 'other' branch that falls back to the last-ranked class
other_class_last(pred_class, X) ==
    LET sorted == argsort(predict_fn(X))
    IN  IF sorted[1] = pred_class THEN sorted[NClasses] ELSE sorted[1]

\* func of the 'other' branch: the class whose probability it returns at X
other_class(pred_class, X) ==
    LET sorted == argsort(predict_fn(X))
    IN  IF sorted[1] = pred_class THEN sorted[2] ELSE sorted[1]

\* _define_func: the closure it returns.  branch "other" is the first func
\* (pred_class captured), branch "index" the second (target_class captured).
\* The second element of the returned pair is target_class as left by the
\* outer scope: unchanged for 'other', pred_class for 'same'.
_define_func(pred_class, target_class) ==
    IF target_class = TStr("other")
    THEN [branch |-> "other", pred_class |-> pred_class,
          target_class |-> target_class]
    ELSE IF target_class = TStr("same")
    THEN [branch |-> "index", pred_class |-> pred_class,
          target_class |-> TInt(pred_class)]
    ELSE [branch |-> "index", pred_class |-> pred_class,
          target_class |-> target_class]

\* predict_fn(X)[:, target_class] raises IndexError unless target_class
\* is an integer
func_raises(fn) ==
    fn.branch = "index" /\ fn.target_class.kind # "int"

\* the class index func uses at X
func_class(fn, X) ==
    IF fn.branch = "other"
    THEN other_class(fn.pred_class, X)
    ELSE fn.target_class.k

\* func(X)
func(fn, X) ==
    predict_fn(X)[func_class(fn, X) + 1]

\* -------------------------------------------------------- numerical gradient
\* X with feature i moved by d grid units
Perturb(X, i, d) ==
    [j \in Features |-> IF j = i THEN X[j] + d ELSE X[j]]

\* the points a function is evaluated at to get its value and its numerical
\* gradient at X_current
grad_points(X_current) ==
    {X_current} \cup {Perturb(X_current, i, d) : i \in Features, d \in {-1, 1}}

\* num_grad: centred difference with a step of one grid unit of the function
\* f (given by its values on grad_points(X)); the value kept is the numerator
\* f(X + e_i) - f(X - e_i), twice the gradient
num_grad(f, X) ==
    [i \in Features |-> f[Perturb(X, i, 1)] - f[Perturb(X, i, -1)]]

\* --------------------------------------------------- loss and gradient
Methods ==
    {"wachter", "wachter_rev", "adiabatic"}

\* the three loss formulas and their gradients.  lam is in units of
\* 1/LamScale; loss and grad are scaled by LossScale; prediction_grad and
\* distance_grad are num_grad values (twice the gradients).
wachter_loss(method, lam, diff, dist, prediction_grad, distance_grad) ==
    LET unit == ProbScale * ProbScale
    IN  IF method = "wachter"
        THEN [err |-> "none",
              loss |-> lam * diff * diff + LamScale * unit * dist,
              grad |-> [i \in Features |->
                          lam * diff * prediction_grad[i]
                          + LamScale * unit * (distance_grad[i] \div 2)]]
        ELSE IF method = "wachter_rev"
        THEN [err |-> "none",
              loss |-> LamScale * diff * diff + lam * unit * dist,
              grad |-> [i \in Features |->
                          LamScale * diff * prediction_grad[i]
                          + lam * unit * (distance_grad[i] \div 2)]]
        ELSE [err |-> "none",
              loss |-> lam * diff * diff + (LamScale - lam) * unit * dist,
              grad |-> [i \in Features |->
                          lam * diff * prediction_grad[i]
                          + (LamScale - lam) * unit * (distance_grad[i] \div 2)]]

\* what get_wachter_grads raises
GradError(e) ==
    [err |-> e, loss |-> 0, grad |-> [i \in Features |-> 0]]

\* a get_wachter_grads whose last branch is 'adiabatic' instead of the raise
get_wachter_grads_no_raise(X_current, fn, X_test, target_proba, lam, method) ==
    IF func_raises(fn)
    THEN GradError("IndexError")
    ELSE wachter_loss(method, lam,
                      func(fn, X_current) - target_proba,
                      cityblock(X_current, X_test),
                      num_grad([Y \in grad_points(X_current) |-> func(fn, Y)], X_current),
                      num_grad([Y \in grad_points(X_current) |-> cityblock(Y, X_test)],
                               X_current))

\* get_wachter_grads: err names the exception it raises ("none": it returns
\* loss and grad_loss)
get_wachter_grads(X_current, fn, X_test, target_proba, lam, method) ==
    IF func_raises(fn)
    THEN GradError("IndexError")
    ELSE
    LET pred == func(fn, X_current)
        prediction_grad == num_grad([Y \in grad_points(X_current) |-> func(fn, Y)], X_current)
        distance_grad == num_grad([Y \in grad_points(X_current) |-> cityblock(Y, X_test)],
                               X_current)
    IN  IF method \in Methods
        THEN wachter_loss(method, lam, pred - target_proba,
                          cityblock(X_current, X_test),
                          prediction_grad, distance_grad)
        ELSE GradError("ValueError")

\* ---------------------------------------------------------------- optimizer
\* a 'counterfactual' variable declared without its constraint
no_constraint(x, feature_range) ==
    x

\* constraint of the 'counterfactual' variable: tf.clip_by_value
constraint(x, feature_range) ==
    [i \in Features |-> Max2(Min2(x[i], feature_range[2]), feature_range[1])]

\* opt.apply_gradients on (grad_ph, cf): the optimizer keeps a moment per
\* feature (a decaying average of the gradients fed so far), moves each
\* feature one grid unit against the sign of its moment, applies the
\* variable's constraint and increments global_step.
apply_gradients(cf_, m_, step_, grad, feature_range) ==
    LET m2 == [i \in Features |-> Half(m_[i] + grad[i])]
    IN  [cf |-> constraint([i \in Features |-> cf_[i] - Sgn(m2[i])], feature_range),
         m |-> m2,
         global_step |-> step_ + 1]

\* ------------------------------------------------------------------ inputs
Threads == {1, 2}

\* original instances handed to explain
Instances ==
    {<<0, 0>>, <<-1, -1>>}

\* values np.random.rand(*data_shape) can draw
RandPoints ==
    {<<0, 1>>, <<1, 1>>}

\* values the variables initializer can give the 'counterfactual' variable
\* (no initializer is passed to tf.get_variable: a random draw)
CfInits ==
    {<<0, 0>>, <<-2, 1>>}

MethodNames == Methods \cup {"gradient"}
InitNames == {"identity", "random", "from_train"}
TargetClasses == {TStr("same"), TStr("other"), TInt(2), TStr("best")}
DistanceFns == {"l1", "l2"}
FeatureRanges == {<<-1, 1>>, <<-3, 3>>}
LamInits == {1, 4}
LamSteps == {2}
TargetProbas == {6}
Tols == {1}

ValidTarget(tc) ==
    tc \in {TStr("same"), TStr("other")} \/ tc.kind = "int"

\* the configurations handed to the constructor: every configuration of
\* valid names with the identity initializer; and every configuration with
\* the random initializer or an unknown name whose lam_init is 1, whose
\* feature_range is <<-3, 3>> and whose method is 'wachter' or unknown
Configs ==
    {c \in [distance_fn : DistanceFns, target_proba : TargetProbas,
            target_class : TargetClasses, max_iter : 0..MaxIter,
            lam_init : LamInits, lam_step : LamSteps,
            max_lam_steps : 0..MaxLamSteps, tol : Tols,
            feature_range : FeatureRanges, method : MethodNames,
            init : InitNames] :
        \/ /\ c.distance_fn \in metric_dict
           /\ c.method \in Methods
           /\ c.init = "identity"
           /\ ValidTarget(c.target_class)
        \/ /\ c.lam_init = 1
           /\ c.feature_range = <<-3, 3>>
           /\ c.method \in MethodNames \ {"wachter_rev", "adiabatic"}}

\* ------------------------------------------------------------------- state
VARIABLES
    phase,         \* "new": no explainer yet; "ready": __init__ returned;
                   \* "failed": __init__ raised
    self,          \* the explainer's attributes
    cf,            \* the 'counterfactual' variable of the session
    opt_m,         \* the optimizer's slot variables
    global_step,   \* the 'global_step' variable of the session
    frame,         \* per thread: the locals of explain/_minimize_wachter_loss
    evals,         \* per thread: the func evaluations made so far
    results        \* per thread: what each finished explain call gave its caller

vars == <<phase, self, cf, opt_m, global_step, frame, evals, results>>

Zero == [i \in Features |-> 0]

NoFunc ==
    [branch |-> "unset", pred_class |-> 0, target_class |-> TStr("")]

EmptyDict(X_init) ==
    [X_cf |-> X_init, loss |-> <<>>, grads |-> <<>>, dists |-> <<>>,
     Xs |-> <<>>, lambdas |-> <<>>, prob_cond |-> <<>>, prob |-> <<>>,
     classes |-> <<>>, success |-> FALSE]

IdleFrame ==
    [pc |-> "idle", X |-> Zero, X_current |-> Zero, lam |-> 0,
     lam_steps |-> 0, outer |-> 0, i |-> 0, loss |-> 0, gradients |-> Zero,
     return_dict |-> EmptyDict(Zero)]

Init ==
    /\ phase = "new"
    /\ self = [cfg |-> CHOOSE c \in Configs : TRUE, predict_class_fn |-> NoFunc]
    /\ cf = Zero
    /\ opt_m = Zero
    /\ global_step = 0
    /\ frame = [t \in Threads |-> IdleFrame]
    /\ evals = [t \in Threads |-> {}]
    /\ results = [t \in Threads |-> <<>>]

\* CounterFactual.__init__
__init__ ==
    /\ phase = "new"
    /\ \E c \in Configs, cf0 \in CfInits :
        IF c.distance_fn \in metric_dict
        THEN /\ phase' = "ready"
             /\ self' = [cfg |-> c, predict_class_fn |-> NoFunc]
             /\ cf' = cf0
             /\ opt_m' = Zero
             /\ global_step' = 0
        ELSE /\ phase' = "failed"
             /\ UNCHANGED <<self, cf, opt_m, global_step>>
    /\ UNCHANGED <<frame, evals, results>>

\* explain returns d to its caller
Return(t, X, d) ==
    /\ frame' = [frame EXCEPT ![t] = IdleFrame]
    /\ results' = [results EXCEPT ![t] =
                     Append(@, [X |-> X, err |-> "none", ret |-> d])]

\* explain raises e
Raise(t, X, e, d) ==
    /\ frame' = [frame EXCEPT ![t] = IdleFrame]
    /\ results' = [results EXCEPT ![t] =
                     Append(@, [X |-> X, err |-> e, ret |-> d])]

\* CounterFactual._initialize; err names the exception it raises
_initialize(init, X, draw) ==
    IF init = "identity" THEN [err |-> "none", X_init |-> X]
    ELSE IF init = "random" THEN [err |-> "none", X_init |-> draw]
    ELSE [err |-> "ValueError", X_init |-> Zero]

\* CounterFactual.explain up to the first outer step
explain(t) ==
    /\ phase = "ready"
    /\ frame[t].pc = "idle"
    /\ Len(results[t]) < MaxCalls
    /\ \E X \in Instances, draw \in RandPoints :
        LET pred_class == argmax(predict_fn(X))
            fn == _define_func(pred_class, self.cfg.target_class)
            r == _initialize(self.cfg.init, X, draw)
            X_init == r.X_init
        IN  /\ self' = [self EXCEPT !.predict_class_fn = fn]
            /\ IF r.err # "none"
               THEN Raise(t, X, r.err, EmptyDict(Zero))
               ELSE /\ frame' = [frame EXCEPT ![t] =
                        [pc |-> "outer", X |-> X, X_current |-> X_init,
                         lam |-> self.cfg.lam_init, lam_steps |-> 0,
                         outer |-> 0, i |-> 0, loss |-> 0, gradients |-> Zero,
                         return_dict |-> EmptyDict(X_init)]]
                    /\ UNCHANGED results
    /\ UNCHANGED <<phase, cf, opt_m, global_step, evals>>

\* for _ in range(n): whether position k is inside the range
in_range(k, n) ==
    k < n

\* an early-return test that is off by one
budget_reached_early(lam_steps, max_lam_steps) ==
    lam_steps + 1 = max_lam_steps

\* the test guarding the early return of the outer loop
budget_reached(lam_steps, max_lam_steps) ==
    lam_steps = max_lam_steps

\* head of the outer loop of _minimize_wachter_loss, and its exit
outer_loop(t) ==
    LET f == frame[t]
    IN  /\ f.pc = "outer"
        /\ IF in_range(f.outer, self.cfg.max_lam_steps)
           THEN IF budget_reached(f.lam_steps, self.cfg.max_lam_steps)
                THEN Return(t, f.X, f.return_dict)
                ELSE /\ frame' = [frame EXCEPT ![t].pc = "inner", ![t].i = 0]
                     /\ UNCHANGED results
           ELSE Return(t, f.X, [f.return_dict EXCEPT !.success = TRUE])
        /\ UNCHANGED <<phase, self, cf, opt_m, global_step, evals>>

\* the func evaluations of thread t's current call at the points Ys: the call,
\* the point, the pred_class func captured and the class index it used
Evaluations(t, fn, Ys) ==
    {[call |-> Len(results[t]) + 1, X |-> Y, pred_class |-> fn.pred_class,
      class |-> func_class(fn, Y)] : Y \in Ys}

\* head of the inner loop: get_wachter_grads on the current candidate, or
\* the end of the outer step once max_iter iterations are done
inner_loop(t) ==
    LET f == frame[t]
        g == get_wachter_grads(f.X_current, self.predict_class_fn, f.X,
                               self.cfg.target_proba, f.lam, self.cfg.method)
    IN  /\ f.pc = "inner"
        /\ IF in_range(f.i, self.cfg.max_iter)
           THEN IF g.err # "none"
                THEN /\ Raise(t, f.X, g.err, f.return_dict)
                     /\ UNCHANGED evals
                ELSE /\ frame' = [frame EXCEPT ![t].pc = "apply",
                                               ![t].loss = g.loss,
                                               ![t].gradients = g.grad]
                     /\ evals' = [evals EXCEPT ![t] = @ \cup
                            Evaluations(t, self.predict_class_fn,
                                        grad_points(f.X_current))]
                     /\ UNCHANGED results
           ELSE /\ frame' = [frame EXCEPT
                        ![t].pc = "outer",
                        ![t].return_dict.X_cf = f.X_current,
                        ![t].lam = f.lam * self.cfg.lam_step,
                        ![t].lam_steps = f.lam_steps + 1,
                        ![t].outer = f.outer + 1]
                /\ UNCHANGED <<evals, results>>
        /\ UNCHANGED <<phase, self, cf, opt_m, global_step>>

\* self.sess.run(self.apply_grad, feed_dict={self.grad_ph: gradients})
apply_grad(t) ==
    LET f == frame[t]
        a == apply_gradients(cf, opt_m, global_step, f.gradients,
                             self.cfg.feature_range)
    IN  /\ f.pc = "apply"
        /\ cf' = a.cf
        /\ opt_m' = a.m
        /\ global_step' = a.global_step
        /\ frame' = [frame EXCEPT ![t].pc = "record"]
        /\ UNCHANGED <<phase, self, evals, results>>

\* CounterFactual._prob_condition
_prob_condition(fn, X_current, target_proba, tol) ==
    Abs(func(fn, X_current) - target_proba) <= tol

\* X_current = self.sess.run(self.cf) and the appends to the history
record(t) ==
    LET f == frame[t]
        X_current == cf
        probas == predict_fn(X_current)
        d == f.return_dict
    IN  /\ f.pc = "record"
        /\ frame' = [frame EXCEPT
              ![t].pc = "inner",
              ![t].i = f.i + 1,
              ![t].X_current = X_current,
              ![t].return_dict =
                  [d EXCEPT
                     !.Xs = Append(d.Xs, X_current),
                     !.loss = Append(d.loss, f.loss),
                     !.grads = Append(d.grads, f.gradients),
                     !.dists = Append(d.dists, cityblock(f.X, X_current)),
                     !.lambdas = Append(d.lambdas, f.lam),
                     !.prob_cond = Append(d.prob_cond,
                         _prob_condition(self.predict_class_fn, X_current,
                                         self.cfg.target_proba, self.cfg.tol)),
                     !.prob = Append(d.prob, amax(probas)),
                     !.classes = Append(d.classes, argmax(probas))]]
        /\ evals' = [evals EXCEPT ![t] = @ \cup
                        Evaluations(t, self.predict_class_fn, {X_current})]
        /\ UNCHANGED <<phase, self, cf, opt_m, global_step, results>>

\* ------------------------------------------------------------ specifications
\* one caller: explain calls one after the other on one explainer
Next ==
    \/ __init__
    \/ explain(1)
    \/ outer_loop(1)
    \/ inner_loop(1)
    \/ apply_grad(1)
    \/ record(1)

Spec == Init /\ [][Next]_vars

\* two callers of one explainer that is already constructed, each making
\* one explain call
ConcConfigs ==
    {c \in Configs :
        /\ c.distance_fn \in metric_dict
        /\ c.method = "wachter"
        /\ c.init = "identity"
        /\ c.target_class = TStr("other")
        /\ c.max_iter = MaxIter
        /\ c.max_lam_steps = 1}

InitConc ==
    /\ phase = "ready"
    /\ \E c \in ConcConfigs : self = [cfg |-> c, predict_class_fn |-> NoFunc]
    /\ cf \in CfInits
    /\ opt_m = Zero
    /\ global_step = 0
    /\ frame = [t \in Threads |-> IdleFrame]
    /\ evals = [t \in Threads |-> {}]
    /\ results = [t \in Threads |-> <<>>]

NextConc ==
    \E t \in Threads :
        \/ results[t] = <<>> /\ explain(t)
        \/ outer_loop(t)
        \/ inner_loop(t)
        \/ apply_grad(t)
        \/ record(t)

SpecConc == InitConc /\ [][NextConc]_vars

\* ------------------------------------------------------------------ claims
\* the results explain has returned (not raised) to thread t's caller
Returned(t) ==
    {n \in 1..Len(results[t]) : results[t][n].err = "none"}

HistoryFields(d) ==
    <<d.Xs, d.loss, d.grads, d.dists, d.lambdas, d.prob_cond, d.prob, d.classes>>

InFeatureRange(x) ==
    \A i \in Features :
        /\ self.cfg.feature_range[1] <= x[i]
        /\ x[i] <= self.cfg.feature_range[2]

\* C1: two explain calls on the same explainer with the same original
\* instance and the identity initializer return identical results.
ExplainIdempotent ==
    \A t \in Threads : \A a, b \in Returned(t) :
        (self.cfg.init = "identity" /\ results[t][a].X = results[t][b].X)
            => results[t][a].ret = results[t][b].ret

\* C2: a result returned after the whole outer-step budget was used, none of
\* whose recorded steps satisfied the tolerance condition, has success = FALSE.
NoSuccessWithoutTolerance ==
    \A t \in Threads : \A n \in Returned(t) :
        LET d == results[t][n].ret
        IN  (/\ Len(d.prob_cond) = self.cfg.max_lam_steps * self.cfg.max_iter
             /\ Len(d.prob_cond) > 0
             /\ \A j \in 1..Len(d.prob_cond) : ~d.prob_cond[j])
                => d.success = FALSE

\* C3: every history sequence of a returned result has exactly
\* max_lam_steps * max_iter entries.
HistoryLength ==
    \A t \in Threads : \A n \in Returned(t) :
        \A j \in 1..8 :
            Len(HistoryFields(results[t][n].ret)[j])
                = self.cfg.max_lam_steps * self.cfg.max_iter

\* C3 witness: a returned result with several entries, one of which satisfied
\* the tolerance condition before the last entry was recorded.
HistoryLengthWitness ==
    \E t \in Threads : \E n \in Returned(t) :
        LET d == results[t][n].ret
        IN  /\ Len(d.Xs) >= 2
            /\ d.prob_cond[1]
            /\ ~d.prob_cond[Len(d.Xs)]

\* C4 as claimed: under 'other', every func evaluation of one explain call
\* uses the same class index.
OtherClassFixed ==
    \A t \in Threads : \A e1, e2 \in evals[t] :
        (self.cfg.target_class = TStr("other") /\ e1.call = e2.call)
            => e1.class = e2.class

\* the original instance of thread t's call number c
CallInstance(t, c) ==
    IF c <= Len(results[t]) THEN results[t][c].X ELSE frame[t].X

\* C4 amended: under 'other', the excluded class is the class predicted for
\* the original instance, fixed for the call, and each func evaluation uses
\* the class of highest probability at the point it is evaluated on among
\* the classes other than the excluded one.
OtherClassPerEvaluation ==
    \A t \in Threads : \A e \in evals[t] :
        self.cfg.target_class = TStr("other") =>
            /\ e.pred_class = argmax(predict_fn(CallInstance(t, e.call)))
            /\ e.class # e.pred_class
            /\ \A k \in Classes \ {e.pred_class} :
                   predict_fn(e.X)[k + 1] <= predict_fn(e.X)[e.class + 1]

\* C4 witness: one call under 'other' whose func evaluations used two
\* different class indices.
OtherClassMoved ==
    \E t \in Threads : \E e1, e2 \in evals[t] :
        /\ self.cfg.target_class = TStr("other")
        /\ e1.call = e2.call
        /\ e1.class # e2.class

\* C5: after every optimizer step every element of the candidate lies within
\* feature_range: the session's candidate, each candidate recorded in a
\* history and the candidate used for the next gradient evaluation.
CandidateInRange ==
    /\ global_step > 0 => InFeatureRange(cf)
    /\ \A t \in Threads :
        /\ \A j \in 1..Len(frame[t].return_dict.Xs) :
               InFeatureRange(frame[t].return_dict.Xs[j])
        /\ Len(frame[t].return_dict.Xs) > 0 => InFeatureRange(frame[t].X_current)
        /\ \A n \in 1..Len(results[t]) :
               /\ \A j \in 1..Len(results[t][n].ret.Xs) :
                      InFeatureRange(results[t][n].ret.Xs[j])
               /\ Len(results[t][n].ret.Xs) > 0
                      => InFeatureRange(results[t][n].ret.X_cf)

\* C5 witness: a recorded candidate with one element on the lower bound of
\* feature_range and another on the upper bound.
CandidateOnBounds ==
    \E t \in Threads : \E j \in 1..Len(frame[t].return_dict.Xs) :
        LET x == frame[t].return_dict.Xs[j]
        IN  /\ \E i \in Features : x[i] = self.cfg.feature_range[1]
            /\ \E i \in Features : x[i] = self.cfg.feature_range[2]

\* C6 as claimed: no explainer is returned by the constructor with an
\* unknown method or an unknown init.
InvalidNamesRejectedAtConstruction ==
    phase = "ready" =>
        /\ self.cfg.method \in Methods
        /\ self.cfg.init \in {"identity", "random"}

\* C6 amended: the constructor accepts any method and init; under an unknown
\* init every explain call raises ValueError, under an unknown method an
\* explain call raises once it reaches its first loss evaluation, and no
\* optimizer step is applied and no history entry recorded under either.
InvalidNamesFailInExplain ==
    (phase = "ready"
     /\ (self.cfg.method \notin Methods \/ self.cfg.init \notin {"identity", "random"}))
    => /\ global_step = 0
       /\ \A t \in Threads :
            /\ frame[t].pc \in {"idle", "outer", "inner"}
            /\ frame[t].return_dict.Xs = <<>>
            /\ \A n \in 1..Len(results[t]) :
                 LET r == results[t][n]
                 IN  /\ r.ret.Xs = <<>>
                     /\ self.cfg.init \notin {"identity", "random"}
                            => r.err = "ValueError"
                     /\ r.err = "none"
                            => self.cfg.max_lam_steps * self.cfg.max_iter = 0

\* C6 witness: an explain call of an explainer with a known init and an
\* unknown method has raised ValueError from its first loss evaluation.
InvalidMethodRaisedInExplain ==
    /\ phase = "ready"
    /\ self.cfg.method \notin Methods
    /\ self.cfg.init \in {"identity", "random"}
    /\ self.predict_class_fn.branch # "unset"
    /\ \E n \in 1..Len(results[1]) : results[1][n].err = "ValueError"

\* C7: two explain calls on the same explainer are mutually exclusive over
\* the whole explain operation.
MutualExclusion ==
    \A t1, t2 \in Threads :
        (t1 # t2 /\ frame[t1].pc # "idle") => frame[t2].pc = "idle"

\* C8 as claimed: under 'other', probabilities [0.1, 0.7, 0.2] with
\* predicted class 1 give class 0, and [0.6, 0.3, 0.1] with predicted class 0
\* give class 1.
OtherPolicyExamples ==
    \A t \in Threads : \A e \in evals[t] :
        self.cfg.target_class = TStr("other") =>
            /\ (predict_fn(e.X) = <<1, 7, 2>> /\ e.pred_class = 1) => e.class = 0
            /\ (predict_fn(e.X) = <<6, 3, 1>> /\ e.pred_class = 0) => e.class = 1

\* C8 amended: under 'other', probabilities [0.1, 0.7, 0.2] with predicted
\* class 1 give class 2 (the next-highest class), and [0.6, 0.3, 0.1] with
\* predicted class 0 give class 1.
OtherPolicyExamplesAmended ==
    \A t \in Threads : \A e \in evals[t] :
        self.cfg.target_class = TStr("other") =>
            /\ (predict_fn(e.X) = <<1, 7, 2>> /\ e.pred_class = 1) => e.class = 2
            /\ (predict_fn(e.X) = <<6, 3, 1>> /\ e.pred_class = 0) => e.class = 1

\* C8 witness: func of the 'other' policy has been evaluated on both examples.
OtherPolicyExamplesSeen ==
    /\ self.cfg.target_class = TStr("other")
    /\ \E e \in evals[1] : predict_fn(e.X) = <<1, 7, 2>> /\ e.pred_class = 1
    /\ \E e \in evals[1] : predict_fn(e.X) = <<6, 3, 1>> /\ e.pred_class = 0

\* C9: _define_func returns no scalar function for a target policy that is
\* neither 'same', nor 'other', nor an integer.
InvalidPolicyRejected ==
    self.predict_class_fn.branch # "unset" => ValidTarget(self.cfg.target_class)

\* C10: with init 'identity' the first history entry's candidate is one
\* optimizer step (then clipping) applied to the original instance, and each
\* later entry's candidate is one optimizer step applied to the previous
\* entry's candidate.  Stated for the first call of a new explainer, whose
\* optimizer slots are still zero when the first step is applied.
IdentityStartsAtOriginal ==
    LET d == frame[1].return_dict
    IN  (/\ self.cfg.init = "identity"
         /\ results[1] = <<>>
         /\ Len(d.Xs) >= 1)
        => d.Xs[1] = apply_gradients(frame[1].X, Zero, 0, d.grads[1],
                                     self.cfg.feature_range).cf

\* every history thread t holds: the one being built and the ones returned
\* or left behind by a raise
Histories(t) ==
    {frame[t].return_dict} \cup {results[t][n].ret : n \in 1..Len(results[t])}

\* C11 as claimed: under 'l1' every recorded loss and every recorded distance
\* is non-negative, for each of the three methods and every lambda reached.
LossAndDistanceNonNegative ==
    \A t \in Threads : \A d \in Histories(t) :
        /\ \A j \in 1..Len(d.dists) : d.dists[j] >= 0
        /\ \A j \in 1..Len(d.loss) : d.loss[j] >= 0

\* C11 amended: every recorded distance is non-negative, and every recorded
\* loss is non-negative under 'wachter' and 'wachter_rev', and under
\* 'adiabatic' for the entries whose lambda is at most 1.
LossNonNegativeUpToLambdaOne ==
    \A t \in Threads : \A d \in Histories(t) :
        /\ \A j \in 1..Len(d.dists) : d.dists[j] >= 0
        /\ \A j \in 1..Len(d.loss) :
               (self.cfg.method \in {"wachter", "wachter_rev"}
                \/ d.lambdas[j] <= LamScale)
                   => d.loss[j] >= 0

\* C11 witness: under 'adiabatic' a history with an entry of lambda below 1
\* and an entry of lambda equal to 1, both with a loss taken at a candidate
\* away from the original instance.
AdiabaticLossRecorded ==
    \E t \in Threads : \E d \in Histories(t) :
        /\ self.cfg.method = "adiabatic"
        /\ \E j \in 2..Len(d.loss) :
               /\ d.lambdas[j] < LamScale
               /\ d.dists[j - 1] > 0
               /\ d.loss[j] > 0
        /\ \E j \in 2..Len(d.loss) :
               /\ d.lambdas[j] = LamScale
               /\ d.dists[j - 1] > 0

====
